---------------------------- MODULE Spec2Model ----------------------------
(***************************************************************************)
(* A model of libastr: the AstrClient request dispatcher and file transfer *)
(* (src/libastr/client.py) and the Archive / Browser resource objects      *)
(* (src/libastr/resources.py).                                             *)
(*                                                                         *)
(* Representation of Python values.                                        *)
(*   str   a sequence of tokens; a token is one structural character       *)
(*         ("/", "@", ":", " ") or a chunk of characters that are none of  *)
(*         these.  "" is << >>, + is \o.                                   *)
(*   None  the sentinel None at type str, NoneDict at type dict (TLC only  *)
(*         compares values of one shape).                                  *)
(*   dict  with str keys that the code iterates: a sequence of [key, val]  *)
(*         records in insertion order.  A JSON object / request body whose *)
(*         keys are fixed literals: a TLA+ record.                         *)
(*   list  a sequence.                                                     *)
(***************************************************************************)
EXTENDS Integers, Sequences, FiniteSets, TLC

VARIABLES
    client,      \* the AstrClient: [email, token, url, headers]
    archive,     \* the Archive object: its public fields and _astr_items
    origin,      \* how the Archive object was produced: "local" or "browser"
    server,      \* the ids of the archive records the server holds
    issued,      \* the ids the server has ever returned from archives/add
    fs,          \* the local files and directories the call in progress
                 \* was given and wrote, besides InputFiles and InputDirs
    handles,     \* file handles opened by upload and not yet closed
    call,        \* the most recent call: operation, arguments, exception,
                 \* return value, requests sent, handles opened
    hist         \* history of the Archive object: the id of its most recent
                 \* successful upload, whether a delete of it succeeded

vars == <<client, archive, origin, server, issued, fs, handles, call, hist>>

---------------------------------------------------------------------------
(* Bounds *)

\* number of distinct ids the server can issue
MaxIds == 2
\* longest file_paths list enumerated entry by entry
MaxPaths == 2

---------------------------------------------------------------------------
(* Python values *)

None == <<"<None>">>
NoneDict == <<[key |-> None, val |-> None]>>

PyInt(n) == [type |-> "int", v |-> <<n>>]
PyStr(s) == [type |-> "str", v |-> s]
\* Python ==: values of different types are never equal
PyEq(a, b) == a.type = b.type /\ a.v = b.v

\* str.format of an int
IntStr(n) == <<ToString(n)>>

Range(f) == {f[i] : i \in DOMAIN f}

\* dict[key] = value on an insertion-ordered dict
DictSet(d, k, v) ==
    IF \E i \in 1..Len(d) : d[i].key = k
    THEN [i \in 1..Len(d) |-> IF d[i].key = k THEN [key |-> k, val |-> v] ELSE d[i]]
    ELSE Append(d, [key |-> k, val |-> v])

---------------------------------------------------------------------------
(* Exceptions (src/libastr/exceptions.py) and results of calls *)

NoResponse == [status_code |-> 0]
NoException == [type |-> "NoException", args |-> << >>, response |-> NoResponse]
Raise(type, args) == [type |-> type, args |-> args, response |-> NoResponse]
RaiseWith(type, response) == [type |-> type, args |-> << >>, response |-> response]

\* what a call did: the exception it raised (or NoException), the value it
\* returned, the requests it sent in order, the paths it opened in order
Result(exc, value, sent, opened) ==
    [exc |-> exc, value |-> value, sent |-> sent, opened |-> opened]
Ok(r) == r.exc.type = "NoException"

---------------------------------------------------------------------------
(* urllib.parse.quote as client.py uses it (safe = "/") *)

QuoteToken(t) ==
    CASE t = "@" -> "%40"
      [] t = ":" -> "%3A"
      [] t = " " -> "%20"
      [] OTHER -> t
Quote(s) == [i \in 1..Len(s) |-> QuoteToken(s[i])]

---------------------------------------------------------------------------
(* The local filesystem *)

Slash == "/"
P_a_f1 == <<"/", "a", "/", "f1">>
P_b_f1 == <<"/", "b", "/", "f1">>
P_a_f2 == <<"/", "a", "/", "f2">>
P_a_locked == <<"/", "a", "/", "locked">>
P_a_missing == <<"/", "a", "/", "missing">>
D_a == <<"/", "a">>
D_out == <<"/", "out">>
D_nodir == <<"/", "nodir">>

\* regular files that exist before any call; P_a_locked cannot be opened
\* for reading by this user
InputFiles == {P_a_f1, P_b_f1, P_a_f2, P_a_locked}
Unreadable == {P_a_locked}
InputDirs == {D_a, D_out, <<"/", "b">>}

\* index of the last "/" of a path, 0 if none
LastSlash(path) ==
    LET S == {i \in 1..Len(path) : path[i] = Slash}
    IN  IF S = {} THEN 0 ELSE CHOOSE i \in S : \A j \in S : j <= i

\* os.path.basename(path), and path.split("/")[-1]
Basename(path) == SubSeq(path, LastSlash(path) + 1, Len(path))
\* os.path.dirname(path), for the paths used here (a parent below the root)
Dirname(path) == SubSeq(path, 1, LastSlash(path) - 1)
\* os.path.join(a, b) for a relative b
PathJoin(a, b) ==
    IF a = << >> \/ a[Len(a)] = Slash THEN a \o b ELSE a \o <<Slash>> \o b

IsFile(f, path) ==
    \/ path \in InputFiles
    \/ path \in DOMAIN f /\ f[path].kind = "file"
IsDir(f, path) ==
    \/ path \in InputDirs
    \/ path \in DOMAIN f /\ f[path].kind = "dir"

\* the exception open(path, "rb") raises, NoException if it opens
OpenForRead(f, path) ==
    IF IsDir(f, path) THEN Raise("IsADirectoryError", <<path>>)
    ELSE IF ~IsFile(f, path) THEN Raise("FileNotFoundError", <<path>>)
    ELSE IF path \in Unreadable THEN Raise("PermissionError", <<path>>)
    ELSE NoException

\* the exception open(path, "wb") raises, NoException if it opens
OpenForWrite(f, path) ==
    IF IsDir(f, path) THEN Raise("IsADirectoryError", <<path>>)
    ELSE IF ~IsDir(f, Dirname(path)) THEN Raise("FileNotFoundError", <<path>>)
    ELSE NoException

---------------------------------------------------------------------------
(* HTTP: requests sent and the answers they get *)

NoHeaders == << >>
NoAuth == << >>
NoData == << >>
NoFiles == << >>
NoneParams == [none |-> TRUE]
JsonNull == [null |-> TRUE]

Req(method, url, headers, auth, json, data, files) ==
    [method |-> method, url |-> url, headers |-> headers, auth |-> auth,
     json |-> json, data |-> data, files |-> files]

\* what comes back for one request: a transport exception (error # ""), or
\* a response with a status code, a JSON body and, for downloads, content
Answer(error, status_code, json, content) ==
    [error |-> error, status_code |-> status_code, json |-> json,
     content |-> content]
ConnectionError == Answer("ConnectionError", 0, JsonNull, << >>)
Status(n) == Answer("", n, JsonNull, << >>)
Json(n, j) == Answer("", n, j, << >>)

ErrorStatuses == {401, 403, 404, 500}
Failures == {ConnectionError} \cup {Status(n) : n \in ErrorStatuses}

\* requests.Response.raise_for_status raises HTTPError for 4xx and 5xx
RaisesForStatus(ans) == 400 <= ans.status_code /\ ans.status_code < 600
\* requests.Response.ok
ResponseOk(ans) == ~RaisesForStatus(ans)
ResponseOf(ans) == [status_code |-> ans.status_code]

---------------------------------------------------------------------------
(* AstrClient (src/libastr/client.py) *)

BASE_URL == <<"http", ":", "/", "/", "astr">>
EMAIL == <<"john", "@", "x.org">>
TOKEN == <<"secret">>
NoEnv == [LIBASTR_URL |-> None, LIBASTR_EMAIL |-> None, LIBASTR_TOKEN |-> None]

Base64(s) == <<"base64(">> \o s \o <<")">>

\* AstrClient._get_base_url_config: [exc, value]
GetBaseUrlConfig(env) ==
    IF env.LIBASTR_URL = None
    THEN [exc |-> Raise("ConfigurationError", << >>), value |-> None]
    ELSE [exc |-> NoException, value |-> env.LIBASTR_URL]

\* AstrClient._get_user_config: [exc, email, token]
GetUserConfig(env) ==
    IF env.LIBASTR_EMAIL = None \/ env.LIBASTR_TOKEN = None
    THEN [exc |-> Raise("ConfigurationError", << >>), email |-> None, token |-> None]
    ELSE [exc |-> NoException, email |-> env.LIBASTR_EMAIL, token |-> env.LIBASTR_TOKEN]

\* AstrClient.__init__: [exc, obj]
AstrClientInit(base_url, email, token, env) ==
    LET u == IF base_url = None THEN GetBaseUrlConfig(env)
             ELSE [exc |-> NoException, value |-> base_url]
        c == IF email = None \/ token = None THEN GetUserConfig(env)
             ELSE [exc |-> NoException, email |-> email, token |-> token]
        url == IF u.value = << >> \/ u.value[Len(u.value)] # Slash
               THEN u.value \o <<Slash>> ELSE u.value
        obj == [email |-> c.email, token |-> c.token,
                url |-> url \o <<"api", Slash>>,
                headers |-> ("Authorization" :>
                                 <<"Basic", " ">> \o Base64(c.email \o <<":">> \o c.token))
                            @@ ("Content-Type" :> <<"application", "/", "json">>)]
        none == [email |-> None, token |-> None, url |-> None, headers |-> NoHeaders]
    IN  IF u.exc # NoException THEN [exc |-> u.exc, obj |-> none]
        ELSE IF c.exc # NoException THEN [exc |-> c.exc, obj |-> none]
        ELSE [exc |-> NoException, obj |-> obj]

\* the except HTTPError branch shared by _request, download and upload:
\* response.status_code == "401" compares an int with a str
IsStatus(ans, literal) == PyEq(PyInt(ans.status_code), PyStr(<<literal>>))

\* the exception that _request, download and upload raise for the answer
\* to their request; notFound tells whether the caller also tests for "404"
AnswerException(ans, notFound) ==
    IF ans.error # "" THEN Raise(ans.error, << >>)
    ELSE IF RaisesForStatus(ans)
    THEN IF IsStatus(ans, "401")
         THEN RaiseWith("AuthenticationFailure", ResponseOf(ans))
         ELSE IF notFound /\ IsStatus(ans, "404")
         THEN RaiseWith("ResourceNotFound", ResponseOf(ans))
         ELSE RaiseWith("HTTPError", ResponseOf(ans))
    ELSE NoException

\* the value a call returns: value if exc is no exception
Returned(exc, value) == IF exc.type = "NoException" THEN value ELSE JsonNull

\* AstrClient._request
Request(c, request_type, url, params, ans) ==
    IF request_type \notin {"GET", "DELETE", "POST"}
    THEN Result(Raise("Exception",
                      <<<<"request type not supported", ":", " ", request_type>>>>),
                JsonNull, << >>, << >>)
    ELSE Result(AnswerException(ans, FALSE),
                Returned(AnswerException(ans, FALSE), ans.json),
                <<Req(request_type, url, c.headers, NoAuth, params, NoData, NoFiles)>>,
                << >>)

\* AstrClient.send_get / send_post / send_delete
SendGet(c, uri, params, ans) == Request(c, "GET", c.url \o Quote(uri), params, ans)
SendPost(c, uri, params, ans) == Request(c, "POST", c.url \o Quote(uri), params, ans)
SendDelete(c, uri, params, ans) == Request(c, "DELETE", c.url \o Quote(uri), params, ans)

\* AstrClient.download, from the response check on: the exception raised
DownloadException(f, path, ans) ==
    IF AnswerException(ans, TRUE).type # "NoException"
    THEN AnswerException(ans, TRUE)
    ELSE IF ~ResponseOk(ans) THEN Raise("DownloadError", << >>)
    ELSE OpenForWrite(f, path)

\* AstrClient.download: the result, with in .value the content written to
\* path (written is TRUE exactly when the file was opened and written)
ClientDownload(c, f, uri, path, ans) ==
    [exc |-> DownloadException(f, path, ans),
     value |-> ans.content,
     sent |-> <<Req("GET", c.url \o Quote(uri), NoHeaders, NoAuth, NoneParams,
                    NoData, NoFiles)>>,
     opened |-> << >>,
     written |-> DownloadException(f, path, ans).type = "NoException"]

\* the filesystem after AstrClient.download
FsWrite(f, path, content) ==
    [p \in DOMAIN f \cup {path} |->
        IF p = path THEN [kind |-> "file", content |-> content] ELSE f[p]]

\* AstrClient.upload, the for loop: the index of the first path whose
\* open() raises, 0 if none; the paths opened before it, in order; the
\* exception of that open()
FirstUnopenable(f, paths) ==
    LET B == {i \in 1..Len(paths) : OpenForRead(f, paths[i]).type # "NoException"}
    IN  IF B = {} THEN 0 ELSE CHOOSE i \in B : \A j \in B : i <= j
OpenedBefore(paths, bad) ==
    IF bad = 0 THEN paths ELSE SubSeq(paths, 1, bad - 1)
OpenedFiles(f, paths) == OpenedBefore(paths, FirstUnopenable(f, paths))
OpenErrorAt(f, paths, bad) ==
    IF bad = 0 THEN NoException ELSE OpenForRead(f, paths[bad])
OpenError(f, paths) == OpenErrorAt(f, paths, FirstUnopenable(f, paths))

\* ClosedFiles closing the files after the request instead of in a finally
ClosedFilesOnSuccess(files, exc) ==
    IF exc.type = "NoException" THEN files ELSE << >>

\* AstrClient.upload, the finally block: the handles of files it closes
ClosedFiles(files, exc) == files

\* AstrClient.upload, the multipart POST of the opened files
UploadRequest(c, uri, files, zip_name) ==
    Req("POST", c.url \o Quote(uri), NoHeaders, <<c.email, c.token>>, NoneParams,
        [archiveId |-> zip_name,
         files |-> [i \in 1..Len(files) |-> Basename(files[i])]],
        [i \in 1..Len(files) |-> <<"files", files[i]>>])

\* AstrClient.upload once the loop has ended with files opened and
\* openError raised (or not): the result, with in .closed the handles closed
UploadOpened(c, uri, files, openError, zip_name, ans) ==
    IF openError.type # "NoException"
    THEN [exc |-> openError, value |-> JsonNull, sent |-> << >>,
          opened |-> files, closed |-> ClosedFiles(files, openError)]
    ELSE [exc |-> AnswerException(ans, FALSE),
          value |-> Returned(AnswerException(ans, FALSE), ans.json),
          sent |-> <<UploadRequest(c, uri, files, zip_name)>>,
          opened |-> files,
          closed |-> ClosedFiles(files, AnswerException(ans, FALSE))]

\* AstrClient.upload
ClientUpload(c, f, uri, paths, zip_name, ans) ==
    UploadOpened(c, uri, OpenedFiles(f, paths), OpenError(f, paths), zip_name, ans)

\* the handles a call of AstrClient.upload leaves open
LeftOpen(r) == SelectSeq(r.opened, LAMBDA p : p \notin Range(r.closed))

\* AstrClient.get_username, after the lookup user
UsernameOf(user) ==
    IF ~Ok(user) THEN user
    ELSE IF user.value # JsonNull
    THEN Result(NoException, user.value.firstname \o <<" ">> \o user.value.lastname,
                user.sent, << >>)
    ELSE Result(NoException, <<"Error", ":", " ", "user not found">>, user.sent, << >>)

\* AstrClient.get_username
GetUsername(c, ans) ==
    UsernameOf(SendGet(c, <<"user", Slash, "email", Slash>> \o c.email, NoneParams, ans))

---------------------------------------------------------------------------
(* Archive (src/libastr/resources.py) *)

MAX_FILE_NUMBER == 50

\* Archive.__init__
ArchiveInit(date, category, descriptors, author, comments, id_) ==
    [id_ |-> id_, date |-> date, category |-> category, author |-> author,
     comments |-> comments, descriptors |-> descriptors,
     astr_items |-> [id_ |-> id_, date |-> date, category |-> category,
                     author |-> author, comments |-> comments,
                     descriptors |-> descriptors]]

\* the public fields of an Archive
Fields(a) ==
    [id_ |-> a.id_, date |-> a.date, category |-> a.category,
     author |-> a.author, comments |-> a.comments,
     descriptors |-> a.descriptors]

\* the list [{"name": key, "value": value}, ...] built from a dict by
\* _object_to_dict and update
DescriptorsList(descriptors) ==
    [i \in 1..Len(descriptors) |->
        [name |-> descriptors[i].key, value |-> descriptors[i].val]]

\* ObjectToDict appending to the list a previous call left in _astr_items
ObjectToDictAppending(a) ==
    [a.astr_items EXCEPT !.descriptors =
        IF a.astr_items.descriptors = a.descriptors
        THEN DescriptorsList(a.descriptors)
        ELSE a.astr_items.descriptors \o DescriptorsList(a.descriptors)]

\* Archive._object_to_dict: the dict returned, which is self._astr_items
\* itself, updated in place
ObjectToDict(a) ==
    [a.astr_items EXCEPT !.descriptors = DescriptorsList(a.descriptors)]

\* FirstInvalidPath without the test for a repeated basename
FirstInvalidPathNoDuplicates(f, file_paths) ==
    LET B == {i \in 1..Len(file_paths) : ~IsFile(f, file_paths[i])}
    IN  IF B = {} THEN 0 ELSE CHOOSE i \in B : \A j \in B : i <= j

\* the for loop of upload and replace_zip: the index of the first path
\* that is not a file or repeats an earlier basename, 0 if none
FirstInvalidPath(f, file_paths) ==
    LET B == {i \in 1..Len(file_paths) :
                \/ ~IsFile(f, file_paths[i])
                \/ \E j \in 1..(i - 1) :
                      Basename(file_paths[j]) = Basename(file_paths[i])}
    IN  IF B = {} THEN 0 ELSE CHOOSE i \in B : \A j \in B : i <= j

TooManyMessage(file_paths) ==
    <<"Too many files to upload (">> \o IntStr(Len(file_paths))
        \o <<"). The limit is", " ">> \o IntStr(MAX_FILE_NUMBER) \o <<".">>

\* UploadPathError naming the first path of the list, not the invalid one
UploadPathErrorNamesFirst(f, file_paths) ==
    IF Len(file_paths) = 0 THEN Raise("PathError", <<<<"Empty list of paths.">>>>)
    ELSE IF Len(file_paths) > MAX_FILE_NUMBER
    THEN Raise("PathError", <<TooManyMessage(file_paths)>>)
    ELSE IF FirstInvalidPath(f, file_paths) = 0 THEN NoException
    ELSE Raise("PathError", <<file_paths[1] \o <<" ", "is not a file">>>>)

\* the validation of file_paths at the head of Archive.upload: the
\* PathError raised, NoException if the paths pass
UploadPathError(f, file_paths) ==
    IF Len(file_paths) = 0 THEN Raise("PathError", <<<<"Empty list of paths.">>>>)
    ELSE IF Len(file_paths) > MAX_FILE_NUMBER
    THEN Raise("PathError", <<TooManyMessage(file_paths)>>)
    ELSE IF FirstInvalidPath(f, file_paths) = 0 THEN NoException
    ELSE LET path == file_paths[FirstInvalidPath(f, file_paths)]
         IN  IF ~IsFile(f, path)
             THEN Raise("PathError", <<path \o <<" ", "is not a file">>>>)
             ELSE Raise("PathError",
                        <<<<"Cannot upload 2 files with">>,
                          <<"the same name", ":", " ">> \o Basename(path)>>)

\* the validation of file_paths at the head of Archive.replace_zip
ReplaceZipPathError(f, file_paths) ==
    IF Len(file_paths) = 0 THEN Raise("PathError", <<<<"Empty list of paths.">>>>)
    ELSE IF Len(file_paths) > MAX_FILE_NUMBER
    THEN Raise("PathError", <<TooManyMessage(file_paths)>>)
    ELSE IF FirstInvalidPath(f, file_paths) = 0 THEN NoException
    ELSE LET path == file_paths[FirstInvalidPath(f, file_paths)]
         IN  IF ~IsFile(f, path)
             THEN Raise("PathError", <<path \o <<" ", "is not a file">>>>)
             ELSE Raise("PathError",
                        <<<<"Cannot upload 2 files with the same name", ":", " ">>
                            \o Basename(path)>>)

\* what a method of Archive did: as Result, with the Archive afterwards,
\* the answers received (one per request sent) and the handles closed
Outcome(a, exc, sent, answers, opened, closed) ==
    [archive |-> a, exc |-> exc, sent |-> sent, answers |-> answers,
     opened |-> opened, closed |-> closed]

ARCHIVES_ID == <<"archives", Slash, "id", Slash>>
ARCHIVES_ADD == <<"archives", Slash, "add">>
UPLOAD == <<"upload">>
UPLOAD_REPLACE_ZIP == <<"upload", Slash, "replace-zip">>
DOWNLOAD_ID == <<"download", Slash, "id", Slash>>

\* UploadTransferred forgetting the id when the transfer fails
UploadTransferredForgetsId(a, archive_id, up, sent, answers) ==
    IF ~Ok(up)
    THEN Outcome([a EXCEPT !.id_ = None], up.exc, sent \o up.sent, answers,
                 up.opened, up.closed)
    ELSE Outcome([a EXCEPT !.id_ = archive_id], NoException, sent \o up.sent,
                 answers, up.opened, up.closed)

\* UploadTransferred assigning the id before the transfer
UploadTransferredIdFirst(a, archive_id, up, sent, answers) ==
    Outcome([a EXCEPT !.id_ = archive_id], up.exc, sent \o up.sent, answers,
            up.opened, up.closed)

\* Archive.upload after the binary transfer up, keyed by the new id
UploadTransferred(a, archive_id, up, sent, answers) ==
    IF ~Ok(up)
    THEN Outcome(a, up.exc, sent \o up.sent, answers, up.opened, up.closed)
    ELSE Outcome([a EXCEPT !.id_ = archive_id], NoException, sent \o up.sent,
                 answers, up.opened, up.closed)

\* the answers received when the transfer's request was sent, or not
WithAnswer(answers, r, ans) == IF r.sent = << >> THEN answers ELSE Append(answers, ans)

\* UploadCreated raising ArchiveError without the response
UploadCreatedBareError(a, c, f, file_paths, res, sent, ansUser, ansAdd, ansUpload) ==
    IF ~Ok(res)
    THEN Outcome(a, res.exc, sent \o res.sent, <<ansUser, ansAdd>>, << >>, << >>)
    ELSE IF res.value.name = <<"Failed">>
    THEN Outcome(a, Raise("ArchiveError", << >>), sent \o res.sent,
                 <<ansUser, ansAdd>>, << >>, << >>)
    ELSE UploadTransferred(a, res.value.archive["_id"],
             ClientUpload(c, f, UPLOAD, file_paths, res.value.archive["_id"], ansUpload),
             sent \o res.sent,
             WithAnswer(<<ansUser, ansAdd>>,
                        ClientUpload(c, f, UPLOAD, file_paths,
                                     res.value.archive["_id"], ansUpload),
                        ansUpload))

\* Archive.upload after the creation request res
UploadCreated(a, c, f, file_paths, res, sent, ansUser, ansAdd, ansUpload) ==
    IF ~Ok(res)
    THEN Outcome(a, res.exc, sent \o res.sent, <<ansUser, ansAdd>>, << >>, << >>)
    ELSE IF res.value.name = <<"Failed">>
    THEN Outcome(a, RaiseWith("ArchiveError", res.value), sent \o res.sent,
                 <<ansUser, ansAdd>>, << >>, << >>)
    ELSE UploadTransferred(a, res.value.archive["_id"],
             ClientUpload(c, f, UPLOAD, file_paths, res.value.archive["_id"], ansUpload),
             sent \o res.sent,
             WithAnswer(<<ansUser, ansAdd>>,
                        ClientUpload(c, f, UPLOAD, file_paths,
                                     res.value.archive["_id"], ansUpload),
                        ansUpload))

\* Archive.upload after the lookup user of the author; a._astr_items is
\* the dict data that _object_to_dict returned
UploadAsUser(a, c, f, file_paths, user, ansUser, ansAdd, ansUpload) ==
    IF ~Ok(user)
    THEN Outcome(a, user.exc, user.sent, <<ansUser>>, << >>, << >>)
    ELSE UploadCreated([a EXCEPT !.astr_items.author = user.value], c, f, file_paths,
                       SendPost(c, ARCHIVES_ADD,
                                [a.astr_items EXCEPT !.author = user.value], ansAdd),
                       user.sent, ansUser, ansAdd, ansUpload)

\* Archive.upload
ArchiveUpload(a, c, f, file_paths, ansUser, ansAdd, ansUpload) ==
    IF UploadPathError(f, file_paths).type # "NoException"
    THEN Outcome(a, UploadPathError(f, file_paths), << >>, << >>, << >>, << >>)
    ELSE UploadAsUser([a EXCEPT !.astr_items = ObjectToDict(a)], c, f, file_paths,
                      GetUsername(c, ansUser), ansUser, ansAdd, ansUpload)

\* IdIsNone if str + None were no error
IdIsNoneNever(a) == FALSE

\* "archives/id/" + self.id_ and the like: TypeError when self.id_ is None
IdIsNone(a) == a.id_ = None
TypeError == Raise("TypeError", <<<<"can only concatenate str (not \"NoneType\") to str">>>>)

\* Archive.replace_zip after the transfer up
ReplaceZipTransferred(a, touch, up, ansTouch, ansUpload) ==
    Outcome(a, up.exc, touch.sent \o up.sent,
            WithAnswer(<<ansTouch>>, up, ansUpload), up.opened, up.closed)

\* ReplaceZipTouched going on to the transfer whatever the touch did
ReplaceZipTouchedUnchecked(a, c, f, file_paths, touch, ansTouch, ansUpload) ==
    ReplaceZipTransferred(a, touch,
        ClientUpload(c, f, UPLOAD_REPLACE_ZIP, file_paths, a.id_, ansUpload),
        ansTouch, ansUpload)

\* Archive.replace_zip after the request touch
ReplaceZipTouched(a, c, f, file_paths, touch, ansTouch, ansUpload) ==
    IF ~Ok(touch)
    THEN Outcome(a, touch.exc, touch.sent, <<ansTouch>>, << >>, << >>)
    ELSE ReplaceZipTransferred(a, touch,
             ClientUpload(c, f, UPLOAD_REPLACE_ZIP, file_paths, a.id_, ansUpload),
             ansTouch, ansUpload)

\* Archive.replace_zip
ArchiveReplaceZip(a, c, f, file_paths, ansTouch, ansUpload) ==
    IF ReplaceZipPathError(f, file_paths).type # "NoException"
    THEN Outcome(a, ReplaceZipPathError(f, file_paths), << >>, << >>, << >>, << >>)
    ELSE IF IdIsNone(a) THEN Outcome(a, TypeError, << >>, << >>, << >>, << >>)
    ELSE ReplaceZipTouched(a, c, f, file_paths,
             SendPost(c, ARCHIVES_ID \o a.id_, [newArchive |-> <<"true">>], ansTouch),
             ansTouch, ansUpload)

\* the outcome of a method of Archive that sends the one request r
Requested(a, r, ans) == Outcome(a, r.exc, r.sent, <<ans>>, << >>, << >>)

\* ArchiveDelete clearing the id of the deleted Archive
ArchiveDeleteClearsId(a, c, ans) ==
    IF IdIsNone(a) THEN Outcome(a, TypeError, << >>, << >>, << >>, << >>)
    ELSE Requested(IF Ok(SendDelete(c, ARCHIVES_ID \o a.id_, NoneParams, ans))
                   THEN [a EXCEPT !.id_ = None] ELSE a,
                   SendDelete(c, ARCHIVES_ID \o a.id_, NoneParams, ans), ans)

\* Archive.delete
ArchiveDelete(a, c, ans) ==
    IF IdIsNone(a) THEN Outcome(a, TypeError, << >>, << >>, << >>, << >>)
    ELSE Requested(a, SendDelete(c, ARCHIVES_ID \o a.id_, NoneParams, ans), ans)

\* UpdateBody testing the arguments for truth instead of "is not None"
UpdateBodyTruthy(date, comments, descriptors) ==
    (IF date # None /\ date # << >> THEN "date" :> date ELSE << >>)
    @@ (IF comments # None /\ comments # << >> THEN "comments" :> comments ELSE << >>)
    @@ (IF descriptors # NoneDict /\ descriptors # << >>
        THEN "descriptors" :> DescriptorsList(descriptors) ELSE << >>)

\* Archive.update, the request body built from the arguments
UpdateBody(date, comments, descriptors) ==
    (IF date # None THEN "date" :> date ELSE << >>)
    @@ (IF comments # None THEN "comments" :> comments ELSE << >>)
    @@ (IF descriptors # NoneDict
        THEN "descriptors" :> DescriptorsList(descriptors) ELSE << >>)

\* Archive.update
ArchiveUpdate(a, c, date, comments, descriptors, ans) ==
    IF IdIsNone(a) THEN Outcome(a, TypeError, << >>, << >>, << >>, << >>)
    ELSE Requested(a, SendPost(c, ARCHIVES_ID \o a.id_,
                               UpdateBody(date, comments, descriptors), ans), ans)

\* the filesystem without path
FsRemove(f, path) == [p \in DOMAIN f \ {path} |-> f[p]]
FsMkdir(f, path, content) ==
    [p \in DOMAIN f \cup {path} |->
        IF p = path THEN [kind |-> "dir", content |-> content] ELSE f[p]]

ZIP == <<"PK">>
OLD_ZIP == <<"PK", "old">>
NOT_ZIP == <<"html">>
DOT_ZIP == <<".zip">>

\* what Archive.download did: as Outcome, with the filesystem afterwards
DownloadOutcome(a, exc, sent, answers, f) ==
    [archive |-> a, exc |-> exc, sent |-> sent, answers |-> answers,
     opened |-> << >>, closed |-> << >>, fs |-> f]

\* Archive.download, the extract branch, after any old archive_folder was
\* removed; f is the filesystem with the zip
Extracted(a, f, archive_folder, path_to_zip, sent, answers) ==
    IF IsFile(f, archive_folder)
    THEN DownloadOutcome(a, Raise("FileExistsError", <<archive_folder>>),
                         sent, answers, f)
    ELSE IF f[path_to_zip].content = NOT_ZIP
    THEN DownloadOutcome(a, Raise("BadZipFile", << >>), sent, answers,
                         FsMkdir(f, archive_folder, << >>))
    ELSE DownloadOutcome(a, NoException, sent, answers,
             FsRemove(FsMkdir(f, archive_folder, f[path_to_zip].content),
                      path_to_zip))

\* Archive.download, the extract branch
ExtractZip(a, f, archive_folder, path_to_zip, sent, answers) ==
    Extracted(a, IF IsDir(f, archive_folder) THEN FsRemove(f, archive_folder) ELSE f,
              archive_folder, path_to_zip, sent, answers)

\* Archive.download after the download r to path_to_zip
Downloaded(a, f, local_path, extract, path_to_zip, r, ans) ==
    IF ~Ok(r) THEN DownloadOutcome(a, r.exc, r.sent, <<ans>>, f)
    ELSE IF extract
    THEN ExtractZip(a, FsWrite(f, path_to_zip, r.value),
                    PathJoin(local_path, a.id_), path_to_zip, r.sent, <<ans>>)
    ELSE DownloadOutcome(a, NoException, r.sent, <<ans>>,
                         FsWrite(f, path_to_zip, r.value))

\* Archive.download
ArchiveDownload(a, c, f, local_path, extract, ans) ==
    IF ~IsDir(f, local_path)
    THEN DownloadOutcome(a, Raise("PathError",
                                  <<local_path \o <<" ", "is not a valid directory">>>>),
                         << >>, << >>, f)
    ELSE IF IdIsNone(a) THEN DownloadOutcome(a, TypeError, << >>, << >>, f)
    ELSE Downloaded(a, f, local_path, extract,
                    PathJoin(local_path, a.id_ \o DOT_ZIP),
                    ClientDownload(c, f, DOWNLOAD_ID \o a.id_,
                                   PathJoin(local_path, a.id_ \o DOT_ZIP), ans),
                    ans)

---------------------------------------------------------------------------
(* Browser (src/libastr/resources.py) *)

\* Browser._json_to_archive, the for loop folding the descriptor array
RECURSIVE FoldDescriptors(_, _)
FoldDescriptors(list, descriptors) ==
    IF list = << >> THEN descriptors
    ELSE FoldDescriptors(Tail(list),
                         DictSet(descriptors, Head(list).name, Head(list).value))

\* Browser._json_to_archive, the two constructor calls
ArchiveOfJson(json_object, descriptors) ==
    IF "comments" \in DOMAIN json_object
    THEN ArchiveInit(json_object["date"], json_object["category"], descriptors,
                     json_object["author"], json_object["comments"],
                     json_object["_id"])
    ELSE ArchiveInit(json_object["date"], json_object["category"], descriptors,
                     json_object["author"], None, json_object["_id"])

\* Browser._json_to_archive
JsonToArchive(json_object) ==
    ArchiveOfJson(json_object, FoldDescriptors(json_object["descriptors"], << >>))

\* Browser.get_archive_by_id after the request r: the result, with in
\* .value the Archive
ArchiveOfResponse(r) ==
    IF ~Ok(r) THEN r
    ELSE Result(NoException, JsonToArchive(r.value), r.sent, << >>)

\* Browser.get_archive_by_id
BrowserGetArchiveById(c, id_, ans) ==
    ArchiveOfResponse(SendGet(c, ARCHIVES_ID \o id_, NoneParams, ans))

---------------------------------------------------------------------------
(* Inputs and the server's answers *)

\* the ids the server issues, in order, and one record it holds from the start
Id(n) == <<"id" \o ToString(n)>>
Ids == {Id(n) : n \in 1..MaxIds}
EXISTING_ID == <<"5b29162874f5a43fc26f1f34">>

Paths == InputFiles \cup {P_a_missing}
PathLists ==
    UNION {[1..n -> Paths] : n \in 0..MaxPaths}
    \cup {[i \in 1..n |-> P_a_f1] : n \in {MAX_FILE_NUMBER, MAX_FILE_NUMBER + 1}}

DATE == <<"2018-05-30">>
CATEGORY == <<"MY_CAT">>
DESCRIPTORS == <<[key |-> <<"robot_type">>, val |-> <<"NAO">>]>>
Dicts == {<< >>, DESCRIPTORS}

\* the answer to a request that is never sent
NoAnswer == Answer("", 0, JsonNull, << >>)
\* the failures drawn for the requests of Archive and Browser methods
SomeFailures == {ConnectionError, Status(500)}

USER == [firstname |-> <<"John">>, lastname |-> <<"Doe">>]
UserAnswers == {Json(200, USER), Json(200, JsonNull)} \cup SomeFailures

\* archives/add: the server creates a record under the next unused id, or
\* reports "Failed", or the request fails
NextId(iss) == Id(Cardinality(iss) + 1)
AddAnswers(iss) ==
    (IF Cardinality(iss) < MaxIds
     THEN {Json(200, [name |-> <<"Success">>, archive |-> ("_id" :> NextId(iss))])}
     ELSE {})
    \cup {Json(200, [name |-> <<"Failed">>])} \cup SomeFailures

\* a request about the record id: it can succeed only if the server holds id
IdAnswers(srv, id_, success) ==
    (IF id_ \in srv THEN success ELSE {}) \cup SomeFailures

\* the id in the creation response of an upload, None if none was created
CreatedId(o) ==
    IF /\ Len(o.answers) >= 2
       /\ o.answers[2].error = "" /\ ~RaisesForStatus(o.answers[2])
       /\ o.answers[2].json.name # <<"Failed">>
    THEN o.answers[2].json.archive["_id"]
    ELSE None

\* the record of a call of a method of Archive, which returns None
Call(op, args, o) ==
    [op |-> op, args |-> args, exc |-> o.exc, value |-> JsonNull,
     sent |-> o.sent, answers |-> o.answers, opened |-> o.opened,
     closed |-> o.closed]
\* the record of a call of a method of AstrClient or Browser
ClientCall(op, args, r, ans, closed) ==
    [op |-> op, args |-> args, exc |-> r.exc, value |-> r.value,
     sent |-> r.sent, answers |-> IF r.sent = << >> THEN << >> ELSE <<ans>>,
     opened |-> r.opened, closed |-> closed]

\* the arguments of a call without arguments
NoArgs == [none |-> TRUE]

\* no call is in progress or waiting to be looked at
Idle == [op |-> "idle", args |-> NoArgs, exc |-> NoException, value |-> JsonNull,
         sent |-> << >>, answers |-> << >>, opened |-> << >>, closed |-> << >>]

NoHist == [uploaded |-> None, deleted |-> FALSE, json_id |-> None,
           atDelete |-> None]

---------------------------------------------------------------------------
(* The state machine *)

Init ==
    /\ client = AstrClientInit(BASE_URL, EMAIL, TOKEN, NoEnv).obj
    /\ \E comments \in {None, <<"first run">>} :
          archive = ArchiveInit(DATE, CATEGORY, DESCRIPTORS, None, comments, None)
    /\ origin = "local"
    /\ server = {EXISTING_ID}
    /\ issued = {}
    /\ fs = << >>
    /\ handles = << >>
    /\ call = Idle
    /\ hist = NoHist

\* the caller has looked at the outcome of the call and goes on
Return ==
    /\ call # Idle
    /\ call' = Idle
    /\ fs' = << >>
    /\ UNCHANGED <<client, archive, origin, server, issued, handles, hist>>

\* archive.upload(file_paths)
Upload ==
    /\ call = Idle
    /\ \E file_paths \in PathLists :
       \E ansUser \in (IF UploadPathError(fs, file_paths).type = "NoException"
                       THEN UserAnswers ELSE {NoAnswer}) :
       \E ansAdd \in (IF ansUser # NoAnswer /\ Ok(GetUsername(client, ansUser))
                      THEN AddAnswers(issued) ELSE {NoAnswer}) :
       \E ansUpload \in (IF /\ ansAdd # NoAnswer
                            /\ Ok(SendPost(client, ARCHIVES_ADD, NoneParams, ansAdd))
                            /\ ansAdd.json.name # <<"Failed">>
                         THEN {Json(200, JsonNull)} \cup SomeFailures
                         ELSE {NoAnswer}) :
           \E o \in {ArchiveUpload(archive, client, fs, file_paths,
                                  ansUser, ansAdd, ansUpload)} :
           \E new \in {CreatedId(o)} :
               /\ archive' = o.archive
               /\ call' = Call("upload", [file_paths |-> file_paths], o)
               /\ handles' = handles \o LeftOpen(o)
               /\ server' = IF new # None THEN server \cup {new} ELSE server
               /\ issued' = IF new # None THEN issued \cup {new} ELSE issued
               /\ hist' = IF o.exc.type = "NoException"
                          THEN [hist EXCEPT !.uploaded = new, !.deleted = FALSE]
                          ELSE hist
               /\ UNCHANGED <<client, origin, fs>>

\* archive.replace_zip(file_paths)
ReplaceZip ==
    /\ call = Idle
    /\ \E file_paths \in PathLists :
       \E ansTouch \in (IF /\ ReplaceZipPathError(fs, file_paths).type = "NoException"
                           /\ ~IdIsNone(archive)
                        THEN IdAnswers(server, archive.id_, {Json(200, JsonNull)})
                        ELSE {NoAnswer}) :
       \E ansUpload \in (IF ansTouch # NoAnswer /\ ansTouch \notin SomeFailures
                         THEN IdAnswers(server, archive.id_, {Json(200, JsonNull)})
                         ELSE {NoAnswer}) :
           \E o \in {ArchiveReplaceZip(archive, client, fs, file_paths,
                                      ansTouch, ansUpload)} :
               /\ archive' = o.archive
               /\ call' = Call("replace_zip", [file_paths |-> file_paths], o)
               /\ handles' = handles \o LeftOpen(o)
               /\ UNCHANGED <<client, origin, server, issued, fs, hist>>

\* archive.update(date, comments, descriptors)
Update ==
    /\ call = Idle
    /\ \E date \in {None, <<"2018-06-15">>},
          comments \in {None, << >>, <<"rerun">>},
          descriptors \in {NoneDict} \cup Dicts :
       \E ans \in (IF IdIsNone(archive) THEN {NoAnswer}
                   ELSE IdAnswers(server, archive.id_, {Json(200, JsonNull)})) :
           \E o \in {ArchiveUpdate(archive, client, date, comments, descriptors, ans)} :
               /\ archive' = o.archive
               /\ call' = Call("update", [date |-> date, comments |-> comments,
                                          descriptors |-> descriptors], o)
               /\ UNCHANGED <<client, origin, server, issued, fs, handles, hist>>

\* archive.delete()
Delete ==
    /\ call = Idle
    /\ \E ans \in (IF IdIsNone(archive) THEN {NoAnswer}
                   ELSE IdAnswers(server, archive.id_, {Json(200, JsonNull)})) :
           \E o \in {ArchiveDelete(archive, client, ans)} :
               /\ archive' = o.archive
               /\ call' = Call("delete", NoArgs, o)
               /\ server' = IF o.exc.type = "NoException" /\ o.sent # << >>
                            THEN server \ {archive.id_} ELSE server
               /\ hist' = IF o.exc.type = "NoException" /\ o.sent # << >>
                          THEN [hist EXCEPT !.deleted = TRUE,
                                            !.atDelete = Fields(archive)]
                          ELSE hist
               /\ UNCHANGED <<client, origin, issued, fs, handles>>

\* what local_path holds when download is called: nothing, a zip left by
\* an earlier download, or a folder left by an earlier extraction
FsInputs(local_path, id_) ==
    IF id_ = None THEN {<< >>}
    ELSE {<< >>,
          FsWrite(<< >>, PathJoin(local_path, id_ \o DOT_ZIP), OLD_ZIP),
          FsMkdir(<< >>, PathJoin(local_path, id_), OLD_ZIP)}

\* archive.download(local_path, extract)
Download ==
    /\ call = Idle
    /\ \E local_path \in {D_out, D_nodir}, extract \in BOOLEAN :
       \E f \in FsInputs(local_path, archive.id_) :
       \E ans \in (IF IdIsNone(archive) \/ ~IsDir(f, local_path) THEN {NoAnswer}
                   ELSE IdAnswers(server, archive.id_,
                                  {Answer("", 200, JsonNull, ZIP),
                                   Answer("", 200, JsonNull, NOT_ZIP)})) :
           \E o \in {ArchiveDownload(archive, client, f, local_path, extract, ans)} :
               /\ archive' = o.archive
               /\ call' = Call("download", [local_path |-> local_path,
                                            extract |-> extract, fs |-> f], o)
               /\ fs' = o.fs
               /\ UNCHANGED <<client, origin, server, issued, handles, hist>>

\* the JSON object the server returns for the record id_
JsonArchives(id_) ==
    {("_id" :> id_) @@ ("author" :> <<"Jane", " ", "Roe">>)
        @@ ("date" :> <<"2018-05-30">>) @@ ("category" :> CATEGORY)
        @@ ("descriptors" :> DescriptorsList(DESCRIPTORS)) @@ c
     : c \in {<< >>, "comments" :> <<"from server">>}}

\* archive = Browser(client).get_archive_by_id(id_)
GetArchiveById ==
    /\ call = Idle
    /\ \E id_ \in server :
       \E ans \in {Json(200, j) : j \in JsonArchives(id_)} \cup SomeFailures :
       \E r \in {BrowserGetArchiveById(client, id_, ans)} :
           /\ call' = ClientCall("get_archive_by_id", [id_ |-> id_],
                                  [r EXCEPT !.value = JsonNull], ans, << >>)
           /\ archive' = IF Ok(r) THEN r.value ELSE archive
           /\ origin' = IF Ok(r) THEN "browser" ELSE origin
           /\ hist' = IF Ok(r) THEN [NoHist EXCEPT !.json_id = ans.json["_id"]]
                      ELSE hist
           /\ UNCHANGED <<client, server, issued, fs, handles>>

Next ==
    \/ Upload
    \/ ReplaceZip
    \/ Update
    \/ Delete
    \/ Download
    \/ GetArchiveById
    \/ Return

Spec == Init /\ [][Next]_vars

---------------------------------------------------------------------------
(* Calls made on the AstrClient directly *)

Uris == {<<"archives">>, ARCHIVES_ID \o EXISTING_ID,
         <<"user", Slash, "email", Slash>> \o EMAIL}
Bodies == {NoneParams, [category |-> CATEGORY]}
Successes == {Json(200, JsonNull), Json(200, USER), Json(201, JsonNull)}

\* client.send_get / send_post / send_delete (uri, params)
Send ==
    /\ call = Idle
    /\ \E method \in {"GET", "POST", "DELETE"}, uri \in Uris, params \in Bodies :
       \E ans \in Successes \cup Failures :
       \E r \in {CASE method = "GET" -> SendGet(client, uri, params, ans)
                   [] method = "POST" -> SendPost(client, uri, params, ans)
                   [] method = "DELETE" -> SendDelete(client, uri, params, ans)} :
           /\ call' = ClientCall(CASE method = "GET" -> "send_get"
                                   [] method = "POST" -> "send_post"
                                   [] method = "DELETE" -> "send_delete",
                                 [uri |-> uri, params |-> params], r, ans, << >>)
           /\ UNCHANGED <<client, archive, origin, server, issued, fs, handles, hist>>

ZipPaths == {PathJoin(D_out, EXISTING_ID \o DOT_ZIP),
             PathJoin(D_nodir, EXISTING_ID \o DOT_ZIP)}

\* client.download(uri, path)
ClientDownloadCall ==
    /\ call = Idle
    /\ \E path \in ZipPaths :
       \E f \in {<< >>, FsWrite(<< >>, path, OLD_ZIP)} :
       \E ans \in {Answer("", 200, JsonNull, ZIP), Answer("", 204, JsonNull, << >>)}
                  \cup Failures :
       \E r \in {ClientDownload(client, f, DOWNLOAD_ID \o EXISTING_ID, path, ans)} :
           /\ IsDir(f, Dirname(path)) \/ f = << >>
           /\ call' = ClientCall("client_download", [path |-> path, fs |-> f],
                                 r, ans, << >>)
           /\ fs' = IF r.written THEN FsWrite(f, path, r.value) ELSE f
           /\ UNCHANGED <<client, archive, origin, server, issued, handles, hist>>

\* client.upload(uri, paths, zip_name)
ClientUploadCall ==
    /\ call = Idle
    /\ \E uri \in {UPLOAD, UPLOAD_REPLACE_ZIP}, paths \in PathLists :
       \E ans \in (IF OpenError(fs, paths).type = "NoException"
                   THEN {Json(200, JsonNull)} \cup Failures ELSE {NoAnswer}) :
       \E r \in {ClientUpload(client, fs, uri, paths, EXISTING_ID, ans)} :
           /\ call' = ClientCall("client_upload", [uri |-> uri, paths |-> paths],
                                 r, ans, r.closed)
           /\ handles' = handles \o LeftOpen(r)
           /\ UNCHANGED <<client, archive, origin, server, issued, fs, hist>>

NextClient ==
    \/ Send
    \/ ClientDownloadCall
    \/ ClientUploadCall
    \/ Return

SpecClient == Init /\ [][NextClient]_vars

---------------------------------------------------------------------------
(* Construction of the AstrClient from arguments and environment *)

ENV_URL == <<"http", ":", "/", "/", "env-astr", Slash>>
ENV_EMAIL == <<"env", "@", "x.org">>
ENV_TOKEN == <<"env-secret">>

\* an argument of the constructor: absent (None), the empty string, or a value
UrlArgs == {None, << >>, BASE_URL, BASE_URL \o <<Slash>>}
EmailArgs == {None, << >>, EMAIL}
TokenArgs == {None, << >>, TOKEN}
\* os.environ: a variable is unset (None), set to the empty string, or set
Envs ==
    [LIBASTR_URL : {None, << >>, ENV_URL},
     LIBASTR_EMAIL : {None, << >>, ENV_EMAIL},
     LIBASTR_TOKEN : {None, << >>, ENV_TOKEN}]

\* no AstrClient has been constructed
NoClient == AstrClientInit(None, None, None, NoEnv).obj
Configured == client # NoClient

InitConfig ==
    /\ client = NoClient
    /\ archive = ArchiveInit(DATE, CATEGORY, DESCRIPTORS, None, None, None)
    /\ origin = "local"
    /\ server = {EXISTING_ID}
    /\ issued = {}
    /\ fs = << >>
    /\ handles = << >>
    /\ call = Idle
    /\ hist = NoHist

\* client = AstrClient(base_url, email, token) under the environment env
Construct ==
    /\ call = Idle
    /\ ~Configured
    /\ \E base_url \in UrlArgs, email \in EmailArgs, token \in TokenArgs, env \in Envs :
       \E r \in {AstrClientInit(base_url, email, token, env)} :
           /\ client' = r.obj
           /\ call' = ClientCall("__init__",
                                 [base_url |-> base_url, email |-> email,
                                  token |-> token, env |-> env],
                                 Result(r.exc, JsonNull, << >>, << >>),
                                 NoAnswer, << >>)
           /\ UNCHANGED <<archive, origin, server, issued, fs, handles, hist>>

\* the calls on a constructed client
SendConfigured == Configured /\ Send
DownloadConfigured == Configured /\ ClientDownloadCall
UploadConfigured == Configured /\ ClientUploadCall

NextConfig ==
    \/ Construct
    \/ SendConfigured
    \/ DownloadConfigured
    \/ UploadConfigured
    \/ Return

SpecConfig == InitConfig /\ [][NextConfig]_vars

---------------------------------------------------------------------------
(* Browser queries, and the dict form of the Archives it makes *)

\* most calls of _object_to_dict made on one Archive
MaxDumps == 3

\* Browser.get_archives_by_args, the list built for "$and"
ElemMatchList(descriptors) ==
    [i \in 1..Len(descriptors) |->
        [descriptors |-> ("$elemMatch" :> [name |-> descriptors[i].key,
                                           value |-> descriptors[i].val])]]

\* BrowserQuery testing descriptors for truth instead of "is not None"
BrowserQueryTruthy(author, date, category, descriptors) ==
    (IF author # None THEN "author" :> author ELSE << >>)
    @@ (IF date # None THEN "date" :> date ELSE << >>)
    @@ (IF category # None THEN "category" :> category ELSE << >>)
    @@ (IF descriptors # NoneDict /\ descriptors # << >>
        THEN "$and" :> ElemMatchList(descriptors) ELSE << >>)

\* Browser.get_archives_by_args, the query built from the arguments
BrowserQuery(author, date, category, descriptors) ==
    (IF author # None THEN "author" :> author ELSE << >>)
    @@ (IF date # None THEN "date" :> date ELSE << >>)
    @@ (IF category # None THEN "category" :> category ELSE << >>)
    @@ (IF descriptors # NoneDict
        THEN "$and" :> ElemMatchList(descriptors) ELSE << >>)

\* Browser._json_to_list_of_archives
JsonToListOfArchives(json_list) ==
    [i \in 1..Len(json_list) |-> JsonToArchive(json_list[i])]

\* Browser.get_archives_by_mongodb_query after the request r: the result,
\* with in .value the list of Archives
ArchivesOfResponse(r) ==
    IF ~Ok(r) THEN r
    ELSE Result(NoException, JsonToListOfArchives(r.value), r.sent, << >>)

\* Browser.get_archives_by_mongodb_query
BrowserGetArchivesByMongodbQuery(c, query, ans) ==
    ArchivesOfResponse(SendPost(c, <<"archives">>, query, ans))

\* Browser.get_archives_by_args
BrowserGetArchivesByArgs(c, author, date, category, descriptors, ans) ==
    BrowserGetArchivesByMongodbQuery(
        c, BrowserQuery(author, date, category, descriptors), ans)

AUTHOR == <<"Jane", " ", "Roe">>
TWO_DESCRIPTORS ==
    <<[key |-> <<"robot_type">>, val |-> <<"NAO">>],
      [key |-> <<"robot_id">>, val |-> <<"42">>]>>

\* the descriptor arrays of the JSON objects the server returns: none, one,
\* two with distinct names, two with one name
JsonDescriptors ==
    {<< >>,
     DescriptorsList(DESCRIPTORS),
     DescriptorsList(TWO_DESCRIPTORS),
     <<[name |-> <<"robot_type">>, value |-> <<"NAO">>],
       [name |-> <<"robot_type">>, value |-> <<"PEPPER">>]>>}

\* the JSON objects the server returns for the record id_
JsonObjects(id_) ==
    {("_id" :> id_) @@ ("author" :> AUTHOR) @@ ("date" :> DATE)
        @@ ("category" :> CATEGORY) @@ ("descriptors" :> ds) @@ c
     : ds \in JsonDescriptors, c \in {<< >>, "comments" :> <<"from server">>}}

\* the history of an Archive made by Browser from the JSON object j: as
\* NoHist, with the object and the number of calls of _object_to_dict
BrowserHist(j) ==
    [json |-> j, dumps |-> 0] @@ [NoHist EXCEPT !.json_id = j["_id"]]

InitBrowser ==
    /\ client = AstrClientInit(BASE_URL, EMAIL, TOKEN, NoEnv).obj
    /\ archive = ArchiveInit(DATE, CATEGORY, DESCRIPTORS, None, None, None)
    /\ origin = "local"
    /\ server = {EXISTING_ID}
    /\ issued = {}
    /\ fs = << >>
    /\ handles = << >>
    /\ call = Idle
    /\ hist = [json |-> JsonNull, dumps |-> 0] @@ NoHist

\* archive = Browser(client).get_archive_by_id(id_), for any JSON object
FetchById ==
    /\ call = Idle
    /\ \E id_ \in server :
       \E ans \in {Json(200, j) : j \in JsonObjects(id_)} \cup SomeFailures :
       \E r \in {BrowserGetArchiveById(client, id_, ans)} :
           /\ call' = ClientCall("get_archive_by_id", [id_ |-> id_],
                                  [r EXCEPT !.value = JsonNull], ans, << >>)
           /\ archive' = IF Ok(r) THEN r.value ELSE archive
           /\ origin' = IF Ok(r) THEN "browser" ELSE origin
           /\ hist' = IF Ok(r) THEN BrowserHist(ans.json) ELSE hist
           /\ UNCHANGED <<client, server, issued, fs, handles>>

\* archives = Browser(client).get_archives_by_args(...); archive = archives[0]
\* when the list is not empty
GetArchivesByArgs ==
    /\ call = Idle
    /\ \E author \in {None, AUTHOR}, date \in {None, DATE},
          category \in {None, CATEGORY},
          descriptors \in {NoneDict, << >>, DESCRIPTORS, TWO_DESCRIPTORS} :
       \E ans \in {Json(200, << >>)}
                  \cup {Json(200, <<j>>) : j \in JsonObjects(EXISTING_ID)}
                  \cup SomeFailures :
       \E r \in {BrowserGetArchivesByArgs(client, author, date, category,
                                          descriptors, ans)} :
           /\ call' = ClientCall("get_archives_by_args",
                                 [author |-> author, date |-> date,
                                  category |-> category,
                                  descriptors |-> descriptors],
                                 [r EXCEPT !.value = JsonNull], ans, << >>)
           /\ archive' = IF Ok(r) /\ Len(r.value) > 0 THEN r.value[1] ELSE archive
           /\ origin' = IF Ok(r) /\ Len(r.value) > 0 THEN "browser" ELSE origin
           /\ hist' = IF Ok(r) /\ Len(r.value) > 0 THEN BrowserHist(ans.json[1])
                      ELSE hist
           /\ UNCHANGED <<client, server, issued, fs, handles>>

\* data = archive._object_to_dict()
ObjectToDictCall ==
    /\ call = Idle
    /\ hist.dumps < MaxDumps
    /\ archive' = [archive EXCEPT !.astr_items = ObjectToDict(archive)]
    /\ call' = ClientCall("_object_to_dict", NoArgs,
                          Result(NoException, ObjectToDict(archive), << >>, << >>),
                          NoAnswer, << >>)
    /\ hist' = [hist EXCEPT !.dumps = @ + 1]
    /\ UNCHANGED <<client, origin, server, issued, fs, handles>>

NextBrowser ==
    \/ FetchById
    \/ GetArchivesByArgs
    \/ ObjectToDictCall
    \/ Return

SpecBrowser == InitBrowser /\ [][NextBrowser]_vars

---------------------------------------------------------------------------
(* Properties *)

\* a response was received for request i of the call cl, and it is a failure
Received(cl, i) == Len(cl.answers) >= i /\ cl.answers[i].error = ""
Failed(cl, i) ==
    Len(cl.answers) >= i /\ (cl.answers[i].error # "" \/ RaisesForStatus(cl.answers[i]))
Succeeded(cl, i) == Received(cl, i) /\ ~RaisesForStatus(cl.answers[i])

\* file_paths is empty, too long, names something that is no regular file,
\* or names two files with one basename
InvalidFilePaths(file_paths) ==
    \/ Len(file_paths) = 0
    \/ Len(file_paths) > MAX_FILE_NUMBER
    \/ \E i \in 1..Len(file_paths) : file_paths[i] \notin InputFiles
    \/ \E i, j \in 1..Len(file_paths) :
          i # j /\ Basename(file_paths[i]) = Basename(file_paths[j])

\* C1: upload and replace_zip with an invalid file_paths, and download with
\* a local_path that is no directory, raise PathError having sent no request
\* and opened no file.
C1_PathErrorBeforeNetwork ==
    /\ (call.op \in {"upload", "replace_zip"} /\ InvalidFilePaths(call.args.file_paths))
          => (call.exc.type = "PathError" /\ call.sent = << >> /\ call.opened = << >>)
    /\ (call.op = "download" /\ ~IsDir(call.args.fs, call.args.local_path))
          => (call.exc.type = "PathError" /\ call.sent = << >> /\ fs = call.args.fs)

C1_Witness ==
    /\ call.op = "upload"
    /\ call.args.file_paths = <<P_a_f1, P_b_f1>>
    /\ call.exc.type = "PathError"

\* C2 as claimed: when the creation request of upload succeeded and the
\* transfer then failed, the Archive has the id of the creation response.
C2_PersistedAfterFailedTransfer ==
    (call.op = "upload" /\ CreatedId(call) # None /\ call.exc.type # "NoException")
        => archive.id_ = CreatedId(call)

\* C2 amended: when the creation request of upload succeeded and the
\* transfer then failed, the Archive keeps the id it had before the call (an
\* Archive without id stays without), although the server holds the record
\* created.
C2_IdUnchangedAfterFailedTransfer ==
    [][(call'.op = "upload" /\ CreatedId(call') # None
            /\ call'.exc.type # "NoException")
        => /\ archive'.id_ = archive.id_
           /\ archive'.id_ # CreatedId(call')
           /\ CreatedId(call') \in server']_vars

C2_Witness ==
    /\ call.op = "upload"
    /\ CreatedId(call) # None
    /\ Len(call.sent) = 3
    /\ call.exc.type = "HTTPError"
    /\ archive.id_ = None

\* C3 as claimed: an Archive constructed without id has an id only after an
\* upload of it succeeded, and then the id of the creation response of its
\* most recent successful upload; an Archive made by Browser always has the
\* "_id" of its JSON object.
C3_BrowserIdIsJsonId ==
    /\ origin = "local" => archive.id_ = hist.uploaded
    /\ origin = "browser" => (hist.json_id # None /\ archive.id_ = hist.json_id)

\* C3 amended: an Archive constructed without id has an id only after an
\* upload of it succeeded, and then the id of the creation response of its
\* most recent successful upload; an Archive made by Browser has the "_id" of
\* its JSON object until an upload of it succeeds, and from then on the id of
\* the creation response of its most recent successful upload.
C3_IdOnlyFromUpload ==
    /\ origin = "local" =>
          archive.id_ = hist.uploaded
    /\ origin = "browser" =>
          /\ hist.json_id # None
          /\ archive.id_ = IF hist.uploaded = None THEN hist.json_id
                           ELSE hist.uploaded

C3_Witness ==
    /\ origin = "browser"
    /\ call.op = "upload"
    /\ call.exc.type = "NoException"
    /\ hist.json_id = EXISTING_ID
    /\ archive.id_ = Id(2)
    /\ hist.uploaded = Id(2)

\* C4 as claimed: a successful delete leaves the Archive as it was, and
\* from then on no operation on the object gives it an id the server holds.
C4_DeletedIsTerminal ==
    [][/\ (call'.op = "delete" /\ call'.exc.type = "NoException")
             => archive' = archive
       /\ (hist.deleted /\ call' # Idle /\ call'.op # "get_archive_by_id")
             => archive'.id_ \notin server']_vars

\* C4 amended: a successful delete leaves the Archive as it was, with an id
\* the server no longer holds; from then on replace_zip, update, delete,
\* download and a failing upload leave its fields as they were and its id
\* unknown to the server; a successful upload gives it a new id that the
\* server holds.
C4_DeletedUntilUploaded ==
    [][/\ (call'.op = "delete" /\ call'.exc.type = "NoException")
             => (archive' = archive /\ archive'.id_ \notin server' /\ hist'.deleted)
       /\ (hist.deleted /\ call' # Idle /\ call'.op # "get_archive_by_id")
             => IF call'.op = "upload" /\ call'.exc.type = "NoException"
                THEN /\ archive'.id_ \in server'
                     /\ archive'.id_ # archive.id_
                     /\ ~hist'.deleted
                ELSE /\ Fields(archive') = Fields(archive)
                     /\ Fields(archive') = hist.atDelete
                     /\ archive'.id_ \notin server'
                     /\ hist'.deleted]_vars

C4_Witness ==
    /\ hist.deleted
    /\ call.op = "replace_zip"
    /\ Len(call.sent) = 1
    /\ archive.id_ \notin server

\* C5: when the creation response of upload says "Failed", upload raises
\* ArchiveError with that response, sends no file transfer, and leaves the
\* id of the Archive as it was.
C5_FailedCreation ==
    [][(call'.op = "upload" /\ Succeeded(call', 2)
            /\ call'.answers[2].json.name = <<"Failed">>)
        => /\ call'.exc.type = "ArchiveError"
           /\ call'.exc.response = call'.answers[2].json
           /\ Len(call'.sent) = 2
           /\ \A i \in 1..Len(call'.sent) : call'.sent[i].files = NoFiles
           /\ call'.opened = << >>
           /\ archive'.id_ = archive.id_]_vars

C5_Witness ==
    /\ call.op = "upload"
    /\ Succeeded(call, 2)
    /\ call.answers[2].json.name = <<"Failed">>
    /\ call.exc.type = "ArchiveError"

\* C6 as claimed: send_get, send_post and send_delete raise
\* AuthenticationFailure for status 401, the generic HTTPError for any other
\* status outside the success range, and return the parsed JSON otherwise.
C6_StatusMapping ==
    (call.op \in {"send_get", "send_post", "send_delete"} /\ Received(call, 1))
        => IF call.answers[1].status_code = 401
           THEN call.exc.type = "AuthenticationFailure"
           ELSE IF call.answers[1].status_code \notin 200..299
           THEN call.exc.type = "HTTPError"
           ELSE call.exc.type = "NoException" /\ call.value = call.answers[1].json

\* C7 as claimed: AstrClient.download raises ResourceNotFound for 404,
\* AuthenticationFailure for 401, the generic HTTPError for any other
\* non-2xx status; it writes the body to the path only when it raises
\* nothing, and on an error leaves the file as it was.
C7_DownloadMapping ==
    (call.op = "client_download" /\ Received(call, 1))
        => /\ IF call.answers[1].status_code = 404
              THEN call.exc.type = "ResourceNotFound"
              ELSE IF call.answers[1].status_code = 401
              THEN call.exc.type = "AuthenticationFailure"
              ELSE IF call.answers[1].status_code \notin 200..299
              THEN call.exc.type = "HTTPError"
              ELSE TRUE
           /\ IF call.exc.type = "NoException"
              THEN fs = FsWrite(call.args.fs, call.args.path, call.answers[1].content)
              ELSE fs = call.args.fs

\* C8: when AstrClient.upload has returned or raised, every file it opened
\* has been closed.
C8_HandlesClosed ==
    /\ handles = << >>
    /\ call.op = "client_upload" => call.closed = call.opened

C8_Witness ==
    /\ call.op = "client_upload"
    /\ call.args.paths = <<P_a_f1, P_a_missing>>
    /\ call.opened = <<P_a_f1>>
    /\ call.exc.type = "FileNotFoundError"

\* every path of file_paths can be opened for reading
Openable(file_paths) == \A i \in 1..Len(file_paths) : file_paths[i] \notin Unreadable

\* C9: replace_zip of an Archive with an id and valid file_paths first sends
\* the touch POST archives/id/<id>, and only if that succeeded the transfer
\* to upload/replace-zip with the same id; nothing is sent after a failed
\* touch or after the transfer; the Archive is left as it was.
C9_TouchThenTransfer ==
    [][(call'.op = "replace_zip" /\ archive.id_ # None
            /\ ~InvalidFilePaths(call'.args.file_paths))
        => /\ Len(call'.sent) \in {1, 2}
           /\ call'.sent[1].method = "POST"
           /\ call'.sent[1].url = client.url \o ARCHIVES_ID \o archive.id_
           /\ call'.sent[1].json = [newArchive |-> <<"true">>]
           /\ call'.sent[1].files = NoFiles
           /\ Failed(call', 1) => Len(call'.sent) = 1
           /\ (Succeeded(call', 1) /\ Openable(call'.args.file_paths))
                 => Len(call'.sent) = 2
           /\ Len(call'.sent) = 2
                 => /\ Succeeded(call', 1)
                    /\ call'.sent[2].method = "POST"
                    /\ call'.sent[2].url = client.url \o UPLOAD_REPLACE_ZIP
                    /\ call'.sent[2].data.archiveId = archive.id_
                    /\ Len(call'.sent[2].files) = Len(call'.args.file_paths)
           /\ archive' = archive]_vars

C9_Witness ==
    /\ call.op = "replace_zip"
    /\ Len(call.sent) = 2
    /\ Failed(call, 2)
    /\ call.exc.type = "HTTPError"

\* the keys of the arguments of update that are given
Provided(args) ==
    {k \in {"date", "comments"} : args[k] # None}
    \cup (IF args.descriptors # NoneDict THEN {"descriptors"} ELSE {})

\* C10: the body of the request of update has exactly the fields given, each
\* with the value given (none for update()), and update leaves the Archive
\* as it was.
C10_UpdateSendsGivenFields ==
    [][call'.op = "update"
        => /\ archive' = archive
           /\ Len(call'.sent) = IF archive.id_ = None THEN 0 ELSE 1
           /\ \A i \in 1..Len(call'.sent) :
                 /\ call'.sent[i].method = "POST"
                 /\ DOMAIN call'.sent[i].json = Provided(call'.args)
                 /\ \A k \in Provided(call'.args) \cap {"date", "comments"} :
                       call'.sent[i].json[k] = call'.args[k]
                 /\ "descriptors" \in Provided(call'.args)
                       => /\ Len(call'.sent[i].json["descriptors"])
                               = Len(call'.args.descriptors)
                          /\ \A n \in 1..Len(call'.args.descriptors) :
                                /\ call'.sent[i].json["descriptors"][n].name
                                      = call'.args.descriptors[n].key
                                /\ call'.sent[i].json["descriptors"][n].value
                                      = call'.args.descriptors[n].val]_vars

C10_Witness ==
    /\ call.op = "update"
    /\ Len(call.sent) = 1
    /\ call.args.date = None
    /\ call.args.comments = << >>
    /\ call.args.descriptors = << >>
    /\ DOMAIN call.sent[1].json = {"comments", "descriptors"}

\* the value the constructor is to use for one setting: the argument if it
\* is given, else the environment variable (None if neither)
Resolved(arg, envValue) == IF arg # None THEN arg ELSE envValue
\* u ending with the separator it has, or with one appended
WithSlash(u) == IF u # << >> /\ u[Len(u)] = Slash THEN u ELSE u \o <<Slash>>

\* C11 as claimed: a client that was constructed uses every value given
\* explicitly and takes from the environment only the values not given; an
\* email given without a token is kept.
C11_ExplicitValuesKept ==
    (call.op = "__init__" /\ call.exc.type = "NoException")
        => /\ client.url = WithSlash(Resolved(call.args.base_url,
                                              call.args.env.LIBASTR_URL))
                              \o <<"api", Slash>>
           /\ client.email = Resolved(call.args.email, call.args.env.LIBASTR_EMAIL)
           /\ client.token = Resolved(call.args.token, call.args.env.LIBASTR_TOKEN)

\* C12 as claimed: construction raises ConfigurationError exactly when the
\* base_url, the email or the token is given neither explicitly nor by the
\* environment; otherwise it succeeds with the url base_url + "/" (if not
\* already ending so) + "api/".
C12_ConfigurationErrorIff ==
    call.op = "__init__"
        => /\ call.exc.type = "ConfigurationError"
                <=> \/ Resolved(call.args.base_url, call.args.env.LIBASTR_URL) = None
                    \/ Resolved(call.args.email, call.args.env.LIBASTR_EMAIL) = None
                    \/ Resolved(call.args.token, call.args.env.LIBASTR_TOKEN) = None
           /\ call.exc.type \in {"ConfigurationError", "NoException"}
           /\ call.exc.type = "NoException"
                => client.url = WithSlash(Resolved(call.args.base_url,
                                                   call.args.env.LIBASTR_URL))
                                   \o <<"api", Slash>>

\* C13 as claimed: whenever a call has sent a request, the base_url, the
\* email and the token of the client are non-empty; and no call on a
\* constructed client changes its url, email, token or headers.
C13_CredentialsNonEmpty ==
    [][/\ call'.sent # << >>
             => /\ client'.url # <<Slash, "api", Slash>>
                /\ client'.email # << >>
                /\ client'.token # << >>
       /\ Configured => client' = client]_vars

\* the keys of the arguments of get_archives_by_args that are given
QueryKeys(args) ==
    {k \in {"author", "date", "category"} : args[k] # None}
    \cup (IF args.descriptors # NoneDict THEN {"$and"} ELSE {})

\* C14: the query that get_archives_by_args sends has a key author, date,
\* category exactly for the arguments given, each with the value given, and
\* a key "$and" exactly when descriptors is given, whose list has one
\* element-match entry {name: key, value: value} per descriptor, in order.
C14_QueryHasGivenFields ==
    call.op = "get_archives_by_args"
        => /\ Len(call.sent) = 1
           /\ call.sent[1].method = "POST"
           /\ call.sent[1].url = client.url \o <<"archives">>
           /\ DOMAIN call.sent[1].json = QueryKeys(call.args)
           /\ \A k \in QueryKeys(call.args) \ {"$and"} :
                 call.sent[1].json[k] = call.args[k]
           /\ "$and" \in QueryKeys(call.args)
                 => /\ Len(call.sent[1].json["$and"]) = Len(call.args.descriptors)
                    /\ \A n \in 1..Len(call.args.descriptors) :
                          /\ DOMAIN call.sent[1].json["$and"][n] = {"descriptors"}
                          /\ DOMAIN call.sent[1].json["$and"][n].descriptors
                                = {"$elemMatch"}
                          /\ call.sent[1].json["$and"][n].descriptors["$elemMatch"]
                                = [name |-> call.args.descriptors[n].key,
                                   value |-> call.args.descriptors[n].val]

C14_Witness ==
    /\ call.op = "get_archives_by_args"
    /\ call.args.author = None
    /\ call.args.date = None
    /\ call.args.category = None
    /\ call.args.descriptors = DESCRIPTORS
    /\ DOMAIN call.sent[1].json = {"$and"}
    /\ Len(call.sent[1].json["$and"]) = 1

\* the descriptor names of a JSON array are distinct
DistinctNames(list) ==
    \A i, j \in 1..Len(list) : list[i].name = list[j].name => i = j
\* the index of the last entry of a JSON array with the name of entry i
LastWithName(list, i) ==
    CHOOSE j \in 1..Len(list) :
        /\ list[j].name = list[i].name
        /\ \A k \in 1..Len(list) : list[k].name = list[i].name => k <= j

\* C15: the dict that _object_to_dict returns for an Archive made by Browser
\* has the id, date, category, author and comments (None if absent) of the
\* JSON object; with distinct descriptor names it has the name/value pairs
\* of the JSON object, and with repeated names one pair per name with the
\* value of the last; the same at the second and every later call.
C15_RoundTrip ==
    (call.op = "_object_to_dict" /\ origin = "browser")
        => /\ call.value.id_ = hist.json["_id"]
           /\ call.value.date = hist.json["date"]
           /\ call.value.category = hist.json["category"]
           /\ call.value.author = hist.json["author"]
           /\ call.value.comments = IF "comments" \in DOMAIN hist.json
                                    THEN hist.json["comments"] ELSE None
           /\ DistinctNames(hist.json["descriptors"])
                 => call.value.descriptors = hist.json["descriptors"]
           /\ DistinctNames(call.value.descriptors)
           /\ \A i \in 1..Len(hist.json["descriptors"]) :
                 \E n \in 1..Len(call.value.descriptors) :
                    /\ call.value.descriptors[n].name
                          = hist.json["descriptors"][i].name
                    /\ call.value.descriptors[n].value
                          = hist.json["descriptors"]
                               [LastWithName(hist.json["descriptors"], i)].value
           /\ \A n \in 1..Len(call.value.descriptors) :
                 \E i \in 1..Len(hist.json["descriptors"]) :
                    call.value.descriptors[n].name = hist.json["descriptors"][i].name
           /\ archive.astr_items = call.value

C15_Witness ==
    /\ call.op = "_object_to_dict"
    /\ origin = "browser"
    /\ hist.dumps = 2
    /\ "comments" \in DOMAIN hist.json
    /\ hist.json["descriptors"] = DescriptorsList(TWO_DESCRIPTORS)
    /\ call.value.descriptors = DescriptorsList(TWO_DESCRIPTORS)

\* entry i of file_paths is the first invalid one, and is not a file: the
\* entries before it are files with distinct basenames
FirstInvalidIsNoFile(file_paths, i) ==
    /\ file_paths[i] \notin InputFiles
    /\ \A j \in 1..(i - 1) :
          /\ file_paths[j] \in InputFiles
          /\ \A k \in 1..(j - 1) : Basename(file_paths[k]) # Basename(file_paths[j])

\* C16: upload with 1 to 50 paths whose first invalid entry is not a file
\* raises PathError with the message "<that path> is not a file", having
\* opened no file and sent no request.
C16_PathErrorNamesPath ==
    (call.op = "upload" /\ Len(call.args.file_paths) \in 1..MAX_FILE_NUMBER)
        => \A i \in 1..Len(call.args.file_paths) :
              FirstInvalidIsNoFile(call.args.file_paths, i)
                 => /\ call.exc.type = "PathError"
                    /\ call.exc.args
                          = <<call.args.file_paths[i] \o <<" ", "is not a file">>>>
                    /\ call.opened = << >>
                    /\ call.sent = << >>
                    /\ handles = << >>

C16_Witness ==
    /\ call.op = "upload"
    /\ call.args.file_paths = <<P_a_f1, P_a_missing>>
    /\ call.exc.type = "PathError"
    /\ call.exc.args = <<P_a_missing \o <<" ", "is not a file">>>>

\* C17 as claimed: a successful upload has sent exactly the user lookup, the
\* creation request with the looked-up user name as author, and the
\* transfer keyed by the id of the creation response, in this order; and no
\* upload sends a request after a step that raised.
C17_ThreeRequestsInOrder ==
    call.op = "upload"
        => /\ Len(call.sent) <= 3
           /\ Len(call.answers) = Len(call.sent)
           /\ \A i \in 1..Len(call.sent) : Failed(call, i) => Len(call.sent) = i
           /\ call.exc.type = "NoException"
                 => /\ Len(call.sent) = 3
                    /\ call.sent[1].method = "GET"
                    /\ call.sent[1].url
                          = client.url \o <<"user", Slash, "email", Slash>>
                               \o Quote(client.email)
                    /\ call.sent[2].method = "POST"
                    /\ call.sent[2].url = client.url \o ARCHIVES_ADD
                    /\ call.answers[1].json \in {USER}
                    /\ call.sent[2].json.author
                          = call.answers[1].json.firstname \o <<" ">>
                               \o call.answers[1].json.lastname
                    /\ call.sent[3].method = "POST"
                    /\ call.sent[3].url = client.url \o UPLOAD
                    /\ call.sent[3].data.archiveId
                          = call.answers[2].json.archive["_id"]
                    /\ Len(call.sent[3].files) = Len(call.args.file_paths)

\* C18: on an Archive without id, delete, update, replace_zip and download
\* raise an error, send no request, open and write no file, and leave the
\* Archive as it was.
C18_UnpersistedCallsFail ==
    [][(archive.id_ = None
            /\ call'.op \in {"delete", "update", "replace_zip", "download"})
        => /\ call'.exc.type \in {"TypeError", "PathError"}
           /\ (call'.op \in {"delete", "update"}
               \/ (call'.op = "replace_zip"
                   /\ ~InvalidFilePaths(call'.args.file_paths))
               \/ (call'.op = "download" /\ call'.args.local_path \in InputDirs))
                 => call'.exc.type = "TypeError"
           /\ call'.sent = << >>
           /\ call'.opened = << >>
           /\ fs' = fs
           /\ archive' = archive]_vars

C18_Witness ==
    /\ archive.id_ = None
    /\ call.op = "replace_zip"
    /\ call.args.file_paths = <<P_a_f1, P_a_f2>>
    /\ call.exc.type = "TypeError"
    /\ call.sent = << >>

===========================================================================
